---------------------------- MODULE Spec2Model ----------------------------
(***************************************************************************)
(* Model of the taskgraph framework bootstrap (framework/bootstrap.go):    *)
(*   - framework.Start: slot acquisition, Task.Init, epoch fetch,          *)
(*     heartbeat, neighbor watches, data-plane server, epoch loop;         *)
(*   - occupyTask: list the task directory, try a conditional claim of     *)
(*     each numeric entry in listed order;                                 *)
(*   - watchAll: baseline Get, watch index, etcd Watch goroutine and the   *)
(*     per-neighbor delivery goroutine.                                    *)
(* The coordination store is an etcd v2 style store: one global change     *)
(* index, an event log, and watches that return the first event on a key   *)
(* whose index is at least the requested wait index.                       *)
(*                                                                         *)
(* The specifications share the variables:                                 *)
(*   Spec          node lifecycles racing for slots (Start, occupyTask)    *)
(*   SpecRace      the race for the slots alone, without crashes           *)
(*   SpecTakeover  Spec with fairness, for the takeover of a freed slot    *)
(*   SpecWatch     one neighbor metadata key and its watchAll pipeline     *)
(*   SpecEpoch     the epoch key, GetAndWatchEpoch and the epoch loop      *)
(*   SpecStart     one node's Start from the claim to releaseResources     *)
(*   SpecShutdown  SpecStart with fairness, without data-plane requests    *)
(*   SpecIsolation one node running, a neighbor's callback may block       *)
(*   SpecServe     the data-plane server and its requests                  *)
(*   SpecLiveness  heartbeat, marker expiry and failure detection in time  *)
(***************************************************************************)
EXTENDS Integers, Sequences, FiniteSets, TLC

VARIABLES
    \* ---- coordination store (etcd) ----
    log,          \* event history; the event at position i has index i
    \* ---- watchAll pipeline for one neighbor (SpecWatch) ----
    who,          \* taskRole passed to watchAll
    wpc,          \* watchAll position for the neighbor: "get" | "watching" | "fatal"
    resp,         \* response of the baseline Get (NoResp when key not found)
    watchIndex,   \* wait index of the etcd Watch goroutine
    receiver,     \* chan *etcd.Response, capacity ReceiverCap
    cbpc,         \* delivery goroutine: "idle" | "baseline" | "loop"
    calls,        \* callbacks made into the task, in order
    getIndex,     \* EtcdIndex seen by the baseline Get (-1 before it)
    \* ---- epoch delivery of one node (SpecEpoch) ----
    epc,          \* Start's position: "fetch" | "setup" | "first" | "loop" | "fatal"
    fEpoch,       \* f.epoch
    eWatchIndex,  \* wait index of the epoch watch
    epochChan,    \* f.epochChan, capacity EpochChanCap
    epochCalls,   \* arguments of the Task.SetEpoch calls, in order
    eGetIndex,    \* EtcdIndex seen by the initial epoch read (-1 before it)
    blockedSeen,  \* an epoch was published while f.epochChan was full
    \* ---- node lifecycles racing for the task slots (Spec) ----
    dir,          \* keys listed under the task directory, in listed order
    owner,        \* per slot: the node whose marker claims it, or None
    pc,           \* per node: position in framework.Start
    pos,          \* per node: index in dir of occupyTask's loop
    taskID,       \* per node: f.taskID
    occ,          \* per node: outcome of occupyTask: "none" | "ok" | "full" | "err"
    hb,           \* per node: the heartbeat goroutine is running
    http,         \* per node: server goroutine: "none" | "spawned" | "serving"
    passed,       \* per node: the startup steps that have succeeded
    failed,       \* per node: a startup step or the server has failed
    crashes,      \* number of node crashes so far
    expired,      \* some liveness marker has expired
    \* ---- one node's Start with its goroutines (SpecShutdown, SpecIsolation) ----
    selfID,       \* f.taskID of the node
    inits,        \* number of Task.Init calls
    topoEpochs,   \* epochs passed to GetParents / GetChildren, in order
    wi,           \* watchAll: loop index into taskIDs
    lstops,       \* watchAll: the local slice stops
    nw,           \* the neighbor watches established so far, one record each
    stops,        \* f.stops: stop handles (positions in nw)
    epochStop,    \* f.epochStop has been closed
    chanClosed,   \* the forwarding unit has ended and closed f.epochChan
    hbOn,         \* the heartbeat goroutine is running
    exits,        \* number of Task.Exit calls
    srv,          \* server goroutine: "none" | "spawned" | "serving"
    served,       \* a data request has been dispatched to the task
    \* ---- the data-plane server (SpecServe) ----
    reqs,         \* per request: requester, handler, channel, response body
    \* ---- heartbeat and failure detection with a clock (SpecLiveness) ----
    clock,        \* the time
    beating,      \* the node's heartbeat is running
    nextBeat,     \* time of the next refresh
    markerExp,    \* time at which the liveness marker expires (Never: no marker)
    expiredAt,    \* time at which the marker expired
    stoppedAt,    \* time at which the node stopped refreshing
    reported      \* per peer: time at which it reported the node failed

storeVars == <<log>>
watchVars == <<who, wpc, resp, watchIndex, receiver, cbpc, calls, getIndex>>
epochVars == <<epc, fEpoch, eWatchIndex, epochChan, epochCalls, eGetIndex,
               blockedSeen>>
nodeVars == <<dir, owner, pc, pos, taskID, occ, hb, http, passed, failed,
              crashes, expired>>
startVars == <<selfID, inits, topoEpochs, wi, lstops, nw, stops, epochStop,
               chanClosed, hbOn, exits, srv, served>>
serveVars == <<reqs>>
liveVars == <<clock, beating, nextBeat, markerExp, expiredAt, stoppedAt,
              reported>>
vars == <<log, who, wpc, resp, watchIndex, receiver, cbpc, calls, getIndex,
          epc, fEpoch, eWatchIndex, epochChan, epochCalls, eGetIndex,
          blockedSeen,
          dir, owner, pc, pos, taskID, occ, hb, http, passed, failed,
          crashes, expired,
          selfID, inits, topoEpochs, wi, lstops, nw, stops, epochStop,
          chanClosed, hbOn, exits, srv, served,
          reqs, clock, beating, nextBeat, markerExp, expiredAt, stoppedAt,
          reported>>

-----------------------------------------------------------------------------
(* Bounds of the model *)

\* number of events appended to the store log after its initial layout
MaxLog == 4

\* largest value written to the epoch key
MaxEpoch == 2

\* nodes that may be started, slots of the job, node crashes
NumNodes == 3
NumSlots == 2
MaxCrashes == 1

\* events appended to the store while one node's Start is followed
MaxStartLog == 3

\* data requests, chunks pushed per request, capacity of a request's channel
MaxReqs == 2
MaxChunks == 2
DataReceiverCap == 1

\* peers running failure detection; lifetime of the liveness marker, period
\* of the heartbeat, bound of the network delay, end of the clock
NumPeers == 2
TTL == 3
HeartbeatInterval == 1
NetDelay == 1
MaxTime == 8

\* events appended to the store while a node's whole run, its shutdown
\* included, is followed
MaxShutdownLog == 2

(* Program constants *)

\* taskRole iota constants
roleNone == 0
roleParent == 1
roleChild == 2

\* capacity of the per-neighbor receiver channel
ReceiverCap == 10

\* capacity of f.epochChan
EpochChanCap == 1

-----------------------------------------------------------------------------
(* The coordination store *)

MetaKey == "meta"
EpochKey == "epoch"
MetaValues == {"ready", "done"}
NoResp == [found |-> FALSE]

\* the controller's initial layout: the epoch key is set to 0
InitLog == << [key |-> EpochKey, action |-> "set", value |-> 0] >>

\* X-Etcd-Index of a response: the index of the latest event of the store
EtcdIndex == Len(log)

\* positions of the events on key k
KeyEvents(k) == { i \in 1..Len(log) : log[i].key = k }

Max(S) == CHOOSE x \in S : \A y \in S : y <= x
Min(S) == CHOOSE x \in S : \A y \in S : x <= y

\* whether key k exists now: its latest event is a set
KeyExists(k) ==
    /\ KeyEvents(k) # {}
    /\ log[Max(KeyEvents(k))].action = "set"

\* client.Get(key): the node's value and the store index, or key not found
StoreGet(k) ==
    IF KeyExists(k)
    THEN [found |-> TRUE, value |-> log[Max(KeyEvents(k))].value,
          etcdIndex |-> EtcdIndex]
    ELSE NoResp

\* the event a watch on key k with wait index w returns: the first event on
\* k whose index is >= w (0 when there is none yet and the watch waits)
WatchNext(k, w) ==
    LET later == { i \in KeyEvents(k) : i >= w }
    IN IF later = {} THEN 0 ELSE Min(later)

\* a neighbor publishes metadata
SetMeta(v) ==
    /\ Len(log) < Len(InitLog) + MaxLog
    /\ log' = Append(log, [key |-> MetaKey, action |-> "set", value |-> v])

\* the metadata key is removed (layout teardown, expiry)
DeleteMeta ==
    /\ Len(log) < Len(InitLog) + MaxLog
    /\ KeyExists(MetaKey)
    /\ log' = Append(log, [key |-> MetaKey, action |-> "delete", value |-> ""])

\* the epoch key is written
WriteEpoch(e) ==
    /\ Len(log) < Len(InitLog) + MaxLog
    /\ log' = Append(log, [key |-> EpochKey, action |-> "set", value |-> e])

-----------------------------------------------------------------------------
(* Task directory, slot markers and strconv.ParseUint *)

Nodes == 1..NumNodes
Slots == 0..(NumSlots - 1)
None == 0

DigitChars == <<"0", "1", "2", "3", "4", "5", "6", "7", "8", "9">>

\* value of a character as a digit (99: not a digit)
DigitVal(c) ==
    CASE c = "0" -> 0 [] c = "1" -> 1 [] c = "2" -> 2 [] c = "3" -> 3
      [] c = "4" -> 4 [] c = "5" -> 5 [] c = "6" -> 6 [] c = "7" -> 7
      [] c = "8" -> 8 [] c = "9" -> 9 [] c = "a" -> 10 [] c = "b" -> 11
      [] c = "c" -> 12 [] c = "d" -> 13 [] c = "e" -> 14 [] c = "f" -> 15
      [] OTHER -> 99

RECURSIVE ParseDigits(_, _, _)
\* the digits of s in the given base, most significant first, onto acc;
\* -1 when a character is not a digit of the base
ParseDigits(s, base, acc) ==
    IF s = << >> THEN acc
    ELSE IF DigitVal(Head(s)) >= base THEN -1
         ELSE ParseDigits(Tail(s), base, acc * base + DigitVal(Head(s)))

\* strconv.ParseUint(idstr, 0, 64): base from the prefix ("0x" hexadecimal,
\* "0" octal, decimal otherwise); -1 stands for the error result
ParseUint(s) ==
    IF s = << >> THEN -1
    ELSE IF Head(s) = "0"
         THEN IF Len(s) >= 3 /\ s[2] \in {"x", "X"}
              THEN ParseDigits(SubSeq(s, 3, Len(s)), 16, 0)
              ELSE ParseDigits(Tail(s), 8, 0)
         ELSE ParseDigits(s, 10, 0)

\* the directory key of slot i, and a key that is not a number
SlotKey(i) == <<DigitChars[i + 1]>>
BadKey == <<"-", "1">>

\* the sorted listing of the task directory as the controller lays it out,
\* and the same with a corrupted entry
CleanDir == [i \in 1..NumSlots |-> SlotKey(i - 1)]
CorruptDir == <<BadKey>> \o CleanDir

-----------------------------------------------------------------------------
(* framework.Start and occupyTask, per node *)

Live(n) == pc[n] \notin {"unstarted", "crashed", "fatal"}

StartupSteps == {"init", "epoch", "watchParents", "watchChildren"}

\* the process of node n ends (Fatalf or crash) in state st: its goroutines,
\* its server and its loop position go with it; what the store and the task
\* have seen of it stays
ProcessEnds(n, st) ==
    /\ pc' = [pc EXCEPT ![n] = st]
    /\ pos' = [pos EXCEPT ![n] = 1]
    /\ hb' = [hb EXCEPT ![n] = FALSE]
    /\ http' = [http EXCEPT ![n] = "none"]
    /\ UNCHANGED <<dir, owner, taskID, occ, passed, expired>>

\* etcdutil.TryOccupyTask: the conditional claim, atomic at the store
TryOccupyTask(n, id) ==
    /\ owner[id] = None
    /\ owner' = [owner EXCEPT ![id] = n]

\* nodes are interchangeable: they are numbered in the order they start
StartsNext(n) == \A m \in Nodes : m < n => pc[m] # "unstarted"

\* Start calls occupyTask, which lists the task directory
StartOccupy(n) ==
    /\ pc[n] = "unstarted"
    /\ StartsNext(n)
    /\ pc' = [pc EXCEPT ![n] = "acquiring"]
    /\ pos' = [pos EXCEPT ![n] = 1]
    /\ UNCHANGED <<dir, owner, taskID, occ, hb, http, passed, failed,
                   crashes, expired>>

\* the listing fails: occupyTask returns (0, err) and Start goes to standby
StartOccupyError(n) ==
    /\ pc[n] = "unstarted"
    /\ StartsNext(n)
    /\ pc' = [pc EXCEPT ![n] = "standby"]
    /\ taskID' = [taskID EXCEPT ![n] = 0]
    /\ occ' = [occ EXCEPT ![n] = "err"]
    /\ UNCHANGED <<dir, owner, pos, hb, http, passed, failed, crashes, expired>>

\* a plausible slip: the loop gives up at the first entry it cannot claim
OccupyIter_StopAtFirstFailure(n) ==
    /\ pc[n] = "acquiring"
    /\ pos[n] <= Len(dir)
    /\ LET id == ParseUint(dir[pos[n]])
       IN IF id >= 0 /\ owner[id] = None
          THEN /\ TryOccupyTask(n, id)
               /\ taskID' = [taskID EXCEPT ![n] = id]
               /\ occ' = [occ EXCEPT ![n] = "ok"]
               /\ pc' = [pc EXCEPT ![n] = "init"]
               /\ UNCHANGED pos
          ELSE /\ taskID' = [taskID EXCEPT ![n] = 0]
               /\ occ' = [occ EXCEPT ![n] = "full"]
               /\ pc' = [pc EXCEPT ![n] = "standby"]
               /\ UNCHANGED <<owner, pos>>
    /\ UNCHANGED <<dir, hb, http, passed, failed, crashes, expired>>

\* a plausible slip: the loop does not return at a successful claim
OccupyIter_KeepGoing(n) ==
    /\ pc[n] = "acquiring"
    /\ pos[n] <= Len(dir)
    /\ LET id == ParseUint(dir[pos[n]])
       IN IF id >= 0 /\ owner[id] = None
          THEN /\ TryOccupyTask(n, id)
               /\ taskID' = [taskID EXCEPT ![n] = id]
               /\ occ' = [occ EXCEPT ![n] = "ok"]
               /\ pc' = [pc EXCEPT ![n] =
                            IF pos[n] = Len(dir) THEN "init" ELSE "acquiring"]
               /\ pos' = [pos EXCEPT ![n] = IF pos[n] = Len(dir) THEN @ ELSE @ + 1]
          ELSE /\ pos' = [pos EXCEPT ![n] = @ + 1]
               /\ UNCHANGED <<owner, taskID, occ, pc>>
    /\ UNCHANGED <<dir, hb, http, passed, failed, crashes, expired>>

\* one iteration of occupyTask's loop over the listed entries
OccupyIter(n) ==
    /\ pc[n] = "acquiring"
    /\ pos[n] <= Len(dir)
    /\ LET id == ParseUint(dir[pos[n]])
       IN IF id < 0
          THEN \* not an integer: warn and continue
               /\ pos' = [pos EXCEPT ![n] = @ + 1]
               /\ UNCHANGED <<owner, taskID, occ, pc>>
          ELSE IF owner[id] = None
          THEN \* claimed: return id, nil
               /\ TryOccupyTask(n, id)
               /\ taskID' = [taskID EXCEPT ![n] = id]
               /\ occ' = [occ EXCEPT ![n] = "ok"]
               /\ pc' = [pc EXCEPT ![n] = "init"]
               /\ UNCHANGED pos
          ELSE \* already claimed: next entry
               /\ pos' = [pos EXCEPT ![n] = @ + 1]
               /\ UNCHANGED <<owner, taskID, occ, pc>>
    /\ UNCHANGED <<dir, hb, http, passed, failed, crashes, expired>>

\* the loop ends without a claim: return 0, "no unassigned task found"
OccupyReturnFull(n) ==
    /\ pc[n] = "acquiring"
    /\ pos[n] > Len(dir)
    /\ taskID' = [taskID EXCEPT ![n] = 0]
    /\ occ' = [occ EXCEPT ![n] = "full"]
    /\ pc' = [pc EXCEPT ![n] = "standby"]
    /\ UNCHANGED <<dir, owner, pos, hb, http, passed, failed, crashes, expired>>

\* standby returns an error: Fatalf("occupyTask failed")
StandbyError(n) ==
    /\ pc[n] = "standby"
    /\ failed' = [failed EXCEPT ![n] = TRUE]
    /\ ProcessEnds(n, "fatal")
    /\ UNCHANGED crashes

\* standby returns nil: Start goes on with f.taskID as occupyTask left it
StandbyReturn(n) ==
    /\ pc[n] = "standby"
    /\ pc' = [pc EXCEPT ![n] = "init"]
    /\ UNCHANGED <<dir, owner, pos, taskID, occ, hb, http, passed, failed,
                   crashes, expired>>

\* GetTask, SetTaskID and Task.Init(f.taskID, f)
TaskInit(n) ==
    /\ pc[n] = "init"
    /\ passed' = [passed EXCEPT ![n] = @ \cup {"init"}]
    /\ pc' = [pc EXCEPT ![n] = "epoch"]
    /\ UNCHANGED <<dir, owner, pos, taskID, occ, hb, http, failed, crashes,
                   expired>>

\* GetAndWatchEpoch succeeds; heartbeat and failure detection are started
FetchEpoch(n) ==
    /\ pc[n] = "epoch"
    /\ passed' = [passed EXCEPT ![n] = @ \cup {"epoch"}]
    /\ hb' = [hb EXCEPT ![n] = TRUE]
    /\ pc' = [pc EXCEPT ![n] = "watches"]
    /\ UNCHANGED <<dir, owner, pos, taskID, occ, http, failed, crashes, expired>>

\* a plausible slip: the error of GetAndWatchEpoch is not checked
FetchEpochError_Ignored(n) ==
    /\ pc[n] = "epoch"
    /\ failed' = [failed EXCEPT ![n] = TRUE]
    /\ hb' = [hb EXCEPT ![n] = TRUE]
    /\ pc' = [pc EXCEPT ![n] = "watches"]
    /\ UNCHANGED <<dir, owner, pos, taskID, occ, http, passed, crashes, expired>>

\* GetAndWatchEpoch fails: Fatalf("WatchEpoch failed")
FetchEpochError(n) ==
    /\ pc[n] = "epoch"
    /\ failed' = [failed EXCEPT ![n] = TRUE]
    /\ ProcessEnds(n, "fatal")
    /\ UNCHANGED crashes

\* watchAll(roleParent, ...) and watchAll(roleChild, ...) establish every
\* neighbor watch; the server goroutine is started; Start enters the epoch loop
WatchAllDone(n) ==
    /\ pc[n] = "watches"
    /\ passed' = [passed EXCEPT ![n] = @ \cup {"watchParents", "watchChildren"}]
    /\ http' = [http EXCEPT ![n] = "spawned"]
    /\ pc' = [pc EXCEPT ![n] = "running"]
    /\ UNCHANGED <<dir, owner, pos, taskID, occ, hb, failed, crashes, expired>>

\* a baseline Get of watchAll fails other than by key not found: Fatalf
WatchAllError(n) ==
    /\ pc[n] = "watches"
    /\ failed' = [failed EXCEPT ![n] = TRUE]
    /\ ProcessEnds(n, "fatal")
    /\ UNCHANGED crashes

\* startHTTP: http.Serve starts accepting on the listener
HttpServe(n) ==
    /\ Live(n)
    /\ http[n] = "spawned"
    /\ http' = [http EXCEPT ![n] = "serving"]
    /\ UNCHANGED <<dir, owner, pc, pos, taskID, occ, hb, passed, failed,
                   crashes, expired>>

\* startHTTP: http.Serve returns an error: Fatalf ends the process
HttpError(n) ==
    /\ Live(n)
    /\ http[n] \in {"spawned", "serving"}
    /\ failed' = [failed EXCEPT ![n] = TRUE]
    /\ ProcessEnds(n, "fatal")
    /\ UNCHANGED crashes

\* heartbeat: the node refreshes the liveness marker of its task slot
Heartbeat(n) ==
    /\ Live(n)
    /\ hb[n]
    /\ owner' = [owner EXCEPT ![taskID[n]] = n]
    /\ UNCHANGED <<dir, pc, pos, taskID, occ, hb, http, passed, failed,
                   crashes, expired>>

\* the node's process dies
Crash(n) ==
    /\ Live(n)
    /\ crashes < MaxCrashes
    /\ ProcessEnds(n, "crashed")
    /\ crashes' = crashes + 1
    /\ UNCHANGED failed

\* a marker that no running heartbeat refreshes expires: the slot is free
Expire(s) ==
    /\ owner[s] # None
    /\ ~ \E n \in Nodes : Live(n) /\ hb[n] /\ taskID[n] = s
    /\ owner' = [owner EXCEPT ![s] = None]
    /\ expired' = TRUE
    /\ UNCHANGED <<dir, pc, pos, taskID, occ, hb, http, passed, failed, crashes>>

\* the node part of a specification that models no node
NodesIdle ==
    /\ dir = CleanDir
    /\ owner = [s \in Slots |-> None]
    /\ pc = [n \in Nodes |-> "unstarted"]
    /\ pos = [n \in Nodes |-> 1]
    /\ taskID = [n \in Nodes |-> 0]
    /\ occ = [n \in Nodes |-> "none"]
    /\ hb = [n \in Nodes |-> FALSE]
    /\ http = [n \in Nodes |-> "none"]
    /\ passed = [n \in Nodes |-> {}]
    /\ failed = [n \in Nodes |-> FALSE]
    /\ crashes = 0
    /\ expired = FALSE

\* the data requests and their initial state
Requests == 1..MaxReqs

NoRequest ==
    [st |-> "none", from |-> 0, req |-> "", cb |-> "", ch |-> << >>,
     body |-> << >>, pushed |-> << >>]

\* the data-plane part of a specification that does not model it
ServeIdle == reqs = [r \in Requests |-> NoRequest]

\* the peers running failure detection; the time of what has not happened
Peers == 1..NumPeers
Never == -1

\* the clock part of a specification that does not model it
LiveIdle ==
    /\ clock = 0
    /\ beating = FALSE
    /\ nextBeat = Never
    /\ markerExp = Never
    /\ expiredAt = Never
    /\ stoppedAt = Never
    /\ reported = [p \in Peers |-> Never]

\* the single-node part of a specification that does not model it
StartIdle ==
    /\ selfID = 0
    /\ inits = 0
    /\ topoEpochs = << >>
    /\ wi = 1
    /\ lstops = << >>
    /\ nw = << >>
    /\ stops = << >>
    /\ epochStop = FALSE
    /\ chanClosed = FALSE
    /\ hbOn = FALSE
    /\ exits = 0
    /\ srv = "none"
    /\ served = FALSE

\* the epoch part of a node that is not modelled in a specification
EpochIdle ==
    /\ epc = "fetch"
    /\ fEpoch = 0
    /\ eWatchIndex = 0
    /\ epochChan = << >>
    /\ epochCalls = << >>
    /\ eGetIndex = -1
    /\ blockedSeen = FALSE

-----------------------------------------------------------------------------
(* watchAll, for one neighbor *)

\* the neighbor is another task of the job
NeighborID == NumSlots - 1

\* the switch on who: the callback the delivery goroutine invokes
TaskCallback(role) ==
    IF role = roleParent THEN "ParentMetaReady" ELSE "ChildMetaReady"

Callback(v) == [cb |-> TaskCallback(who), id |-> NeighborID, meta |-> v]

\* a plausible slip: the watch starts at the index the baseline was read at
WatchIndexAfterGet_NoSkip(r) ==
    IF r.found THEN r.etcdIndex ELSE 1

\* the wait index chosen after the baseline Get
WatchIndexAfterGet(r) ==
    IF r.found THEN r.etcdIndex + 1 ELSE 1

\* baseline Get, choice of the watch index, start of both goroutines
WatchAllGet ==
    /\ wpc = "get"
    /\ LET r == StoreGet(MetaKey)
       IN /\ resp' = r
          /\ watchIndex' = WatchIndexAfterGet(r)
    /\ getIndex' = EtcdIndex
    /\ wpc' = "watching"
    /\ cbpc' = "baseline"
    /\ UNCHANGED <<log, who, receiver, calls>>

\* a plausible slip: the error is checked after the goroutines are started
WatchAllGetError_AfterSpawn ==
    /\ wpc = "get"
    /\ wpc' = "fatal"
    /\ cbpc' = "baseline"
    /\ watchIndex' = 1
    /\ UNCHANGED <<log, who, resp, receiver, calls, getIndex>>

\* the baseline Get fails with an error other than key not found: Fatalf
WatchAllGetError ==
    /\ wpc = "get"
    /\ wpc' = "fatal"
    /\ UNCHANGED <<log, who, resp, watchIndex, receiver, cbpc, calls, getIndex>>

\* etcd client Watch goroutine: next event on the key into the receiver
WatchPoll ==
    /\ wpc = "watching"
    /\ Len(receiver) < ReceiverCap
    /\ LET i == WatchNext(MetaKey, watchIndex)
       IN /\ i # 0
          /\ receiver' = Append(receiver, log[i])
          /\ watchIndex' = i + 1
    /\ UNCHANGED <<log, who, wpc, resp, cbpc, calls, getIndex>>

\* delivery goroutine, before its loop: the baseline value, if one was read
DeliverBaseline ==
    /\ cbpc = "baseline"
    /\ calls' = IF resp.found THEN Append(calls, Callback(resp.value)) ELSE calls
    /\ cbpc' = "loop"
    /\ UNCHANGED <<log, who, wpc, resp, watchIndex, receiver, getIndex>>

\* a plausible slip: the action of the event is not looked at
DeliverEvent_AnyAction ==
    /\ cbpc = "loop"
    /\ receiver # << >>
    /\ calls' = Append(calls, Callback(Head(receiver).value))
    /\ receiver' = Tail(receiver)
    /\ UNCHANGED <<log, who, wpc, resp, watchIndex, cbpc, getIndex>>

\* delivery goroutine, one iteration of "for resp := range receiver"
DeliverEvent ==
    /\ cbpc = "loop"
    /\ receiver # << >>
    /\ LET ev == Head(receiver)
       IN calls' = IF ev.action # "set" THEN calls
                   ELSE Append(calls, Callback(ev.value))
    /\ receiver' = Tail(receiver)
    /\ UNCHANGED <<log, who, wpc, resp, watchIndex, cbpc, getIndex>>

InitWatch ==
    /\ log = InitLog
    /\ who \in {roleParent, roleChild}
    /\ wpc = "get"
    /\ resp = NoResp
    /\ watchIndex = 0
    /\ receiver = << >>
    /\ cbpc = "idle"
    /\ calls = << >>
    /\ getIndex = -1
    /\ EpochIdle
    /\ NodesIdle
    /\ StartIdle
    /\ ServeIdle
    /\ LiveIdle

NextWatch ==
    \/ \E v \in MetaValues : SetMeta(v) /\ UNCHANGED <<watchVars, epochVars, nodeVars, startVars, serveVars, liveVars>>
    \/ DeleteMeta /\ UNCHANGED <<watchVars, epochVars, nodeVars, startVars, serveVars, liveVars>>
    \/ WriteEpoch(1) /\ UNCHANGED <<watchVars, epochVars, nodeVars, startVars, serveVars, liveVars>>
    \/ WatchAllGet /\ UNCHANGED <<epochVars, nodeVars, startVars, serveVars, liveVars>>
    \/ WatchAllGetError /\ UNCHANGED <<epochVars, nodeVars, startVars, serveVars, liveVars>>
    \/ WatchPoll /\ UNCHANGED <<epochVars, nodeVars, startVars, serveVars, liveVars>>
    \/ DeliverBaseline /\ UNCHANGED <<epochVars, nodeVars, startVars, serveVars, liveVars>>
    \/ DeliverEvent /\ UNCHANGED <<epochVars, nodeVars, startVars, serveVars, liveVars>>

SpecWatch == InitWatch /\ [][NextWatch]_vars

-----------------------------------------------------------------------------
(* Epoch delivery: GetAndWatchEpoch and the epoch loop of Start *)

Epochs == 0..MaxEpoch

\* the neighbor-watch part of a node that is not modelled in a specification
WatchIdle ==
    /\ who = roleParent
    /\ wpc = "get"
    /\ resp = NoResp
    /\ watchIndex = 0
    /\ receiver = << >>
    /\ cbpc = "idle"
    /\ calls = << >>
    /\ getIndex = -1

\* GetAndWatchEpoch: the epoch watch continues after the index of the read
EpochWatchStart(r) == r.etcdIndex + 1

\* GetAndWatchEpoch returns the current epoch and starts the forwarding unit
StartFetchEpoch ==
    /\ epc = "fetch"
    /\ KeyExists(EpochKey)
    /\ LET r == StoreGet(EpochKey)
       IN /\ fEpoch' = r.value
          /\ eWatchIndex' = EpochWatchStart(r)
    /\ eGetIndex' = EtcdIndex
    /\ epc' = "setup"
    /\ UNCHANGED <<log, epochChan, epochCalls, blockedSeen>>

\* GetAndWatchEpoch returns an error: Fatalf("WatchEpoch failed")
StartFetchEpochError ==
    /\ epc = "fetch"
    /\ epc' = "fatal"
    /\ UNCHANGED <<log, fEpoch, eWatchIndex, epochChan, epochCalls, eGetIndex,
                   blockedSeen>>

\* forwarding unit of the epoch watch: the next published value goes into
\* f.epochChan; it blocks while the channel is full
EpochForward ==
    /\ eWatchIndex # 0
    /\ epc # "fatal"
    /\ Len(epochChan) < EpochChanCap
    /\ LET i == WatchNext(EpochKey, eWatchIndex)
       IN /\ i # 0
          /\ epochChan' = Append(epochChan, log[i].value)
          /\ eWatchIndex' = i + 1
    /\ UNCHANGED <<log, epc, fEpoch, epochCalls, eGetIndex, blockedSeen>>

\* heartbeat, failure detection, watchAll and the server are started
StartSetup ==
    /\ epc = "setup"
    /\ epc' = "first"
    /\ UNCHANGED <<log, fEpoch, eWatchIndex, epochChan, epochCalls, eGetIndex,
                   blockedSeen>>

\* a plausible slip: the initial SetEpoch runs concurrently with the loop
\* (go f.task.SetEpoch(f.epoch)) and lands after the first received value
StartFirstSetEpoch_Async ==
    /\ epc = "first"
    /\ epc' = "loop"
    /\ IF epochChan = << >>
       THEN /\ epochCalls' = Append(epochCalls, fEpoch)
            /\ UNCHANGED <<epochChan, fEpoch>>
       ELSE /\ epochCalls' = epochCalls \o <<Head(epochChan), fEpoch>>
            /\ epochChan' = Tail(epochChan)
            /\ fEpoch' = Head(epochChan)
    /\ UNCHANGED <<log, eWatchIndex, eGetIndex, blockedSeen>>

\* a plausible slip: a value already waiting in f.epochChan is taken as
\* f.epoch before the first SetEpoch
StartFirstSetEpoch_Latest ==
    /\ epc = "first"
    /\ epc' = "loop"
    /\ IF epochChan = << >>
       THEN /\ epochCalls' = Append(epochCalls, fEpoch)
            /\ UNCHANGED <<epochChan, fEpoch>>
       ELSE /\ epochCalls' = Append(epochCalls, Head(epochChan))
            /\ epochChan' = Tail(epochChan)
            /\ fEpoch' = Head(epochChan)
    /\ UNCHANGED <<log, eWatchIndex, eGetIndex, blockedSeen>>

\* f.task.SetEpoch(f.epoch) with the epoch read at startup
StartFirstSetEpoch ==
    /\ epc = "first"
    /\ epochCalls' = Append(epochCalls, fEpoch)
    /\ epc' = "loop"
    /\ UNCHANGED <<log, fEpoch, eWatchIndex, epochChan, eGetIndex, blockedSeen>>

\* a plausible slip: the loop variable shadows f.epoch, which stays stale
StartLoopIter_Stale ==
    /\ epc = "loop"
    /\ epochChan # << >>
    /\ epochCalls' = Append(epochCalls, fEpoch)
    /\ epochChan' = Tail(epochChan)
    /\ UNCHANGED <<log, epc, fEpoch, eWatchIndex, eGetIndex, blockedSeen>>

\* one iteration of "for f.epoch = range f.epochChan"
StartLoopIter ==
    /\ epc = "loop"
    /\ epochChan # << >>
    /\ fEpoch' = Head(epochChan)
    /\ epochCalls' = Append(epochCalls, Head(epochChan))
    /\ epochChan' = Tail(epochChan)
    /\ UNCHANGED <<log, epc, eWatchIndex, eGetIndex, blockedSeen>>

\* the epoch key is written by a controller; the write finds the forwarding
\* unit blocked when f.epochChan is already full
PublishEpoch(e) ==
    /\ WriteEpoch(e)
    /\ blockedSeen' = (blockedSeen \/ (epc # "fetch" /\ Len(epochChan) = EpochChanCap))
    /\ UNCHANGED <<epc, fEpoch, eWatchIndex, epochChan, epochCalls, eGetIndex>>

InitEpoch ==
    /\ log = InitLog
    /\ WatchIdle
    /\ EpochIdle
    /\ NodesIdle
    /\ StartIdle
    /\ ServeIdle
    /\ LiveIdle

NextEpoch ==
    \/ \E e \in Epochs : PublishEpoch(e) /\ UNCHANGED <<watchVars, nodeVars, startVars, serveVars, liveVars>>
    \/ SetMeta("ready") /\ UNCHANGED <<watchVars, epochVars, nodeVars, startVars, serveVars, liveVars>>
    \/ StartFetchEpoch /\ UNCHANGED <<watchVars, nodeVars, startVars, serveVars, liveVars>>
    \/ StartFetchEpochError /\ UNCHANGED <<watchVars, nodeVars, startVars, serveVars, liveVars>>
    \/ EpochForward /\ UNCHANGED <<watchVars, nodeVars, startVars, serveVars, liveVars>>
    \/ StartSetup /\ UNCHANGED <<watchVars, nodeVars, startVars, serveVars, liveVars>>
    \/ StartFirstSetEpoch /\ UNCHANGED <<watchVars, nodeVars, startVars, serveVars, liveVars>>
    \/ StartLoopIter /\ UNCHANGED <<watchVars, nodeVars, startVars, serveVars, liveVars>>

SpecEpoch == InitEpoch /\ [][NextEpoch]_vars

-----------------------------------------------------------------------------
(* One node's Start: Task.Init, epoch fetch, heartbeat, watchAll for the   *)
(* parents and the children, server, epoch loop and release                *)

Last(s) == s[Len(s)]

\* the epoch variables other than Start's position
epochData == <<fEpoch, eWatchIndex, epochChan, epochCalls, eGetIndex,
               blockedSeen>>

\* the metadata keys of the neighbors
MakeChildMetaPath(id) == IF id = 1 THEN "1/childMeta" ELSE "2/childMeta"
MakeParentMetaPath(id) == IF id = 1 THEN "1/parentMeta" ELSE "2/parentMeta"

\* a topology whose neighbor sets change with the epoch
GetParents(e) == IF e % 2 = 0 THEN <<1>> ELSE <<2>>
GetChildren(e) == IF e % 2 = 0 THEN <<2>> ELSE <<1>>

\* the neighbor watches a node establishes: its parents and its children
MaxWatches == Len(GetParents(0)) + Len(GetChildren(0))

\* the switch on who: the key watched for a neighbor
WatchPath(role, id) ==
    IF role = roleParent THEN MakeChildMetaPath(id) ELSE MakeParentMetaPath(id)

\* the keys some epoch's topology makes the node watch
NeighborKeys ==
    { WatchPath(roleParent, GetParents(e)[1]) : e \in Epochs }
        \cup { WatchPath(roleChild, GetChildren(e)[1]) : e \in Epochs }

\* a neighbor flags its meta; every flagged meta is a new value
NeighborFlags(k) ==
    /\ Len(log) < Len(InitLog) + MaxStartLog
    /\ log' = Append(log, [key |-> k, action |-> "set",
                           value |-> Len(log) + 1])
    /\ UNCHANGED <<epochVars, startVars>>

\* the controller advances the epoch
ControllerPublish(e) ==
    /\ Len(log) < Len(InitLog) + MaxStartLog
    /\ WriteEpoch(e)
    /\ UNCHANGED <<epochVars, startVars>>

\* occupyTask returns the node's slot: the first listed one, all being free
StartAcquire ==
    /\ epc = "acquire"
    /\ selfID' = ParseUint(CleanDir[1])
    /\ epc' = "init"
    /\ UNCHANGED <<log, epochData, inits, topoEpochs, wi, lstops, nw, stops,
                   epochStop, chanClosed, hbOn, exits, srv, served>>

\* a plausible slip: Task.Init is left to a goroutine that has not run yet
StartTaskInit_Deferred ==
    /\ epc = "init"
    /\ epc' = "fetch"
    /\ UNCHANGED <<log, epochData, selfID, inits, topoEpochs, wi, lstops, nw,
                   stops, epochStop, chanClosed, hbOn, exits, srv, served>>

\* GetTask, SetTaskID, Task.Init(f.taskID, f)
StartTaskInit ==
    /\ epc = "init"
    /\ inits' = inits + 1
    /\ epc' = "fetch"
    /\ UNCHANGED <<log, epochData, selfID, topoEpochs, wi, lstops, nw, stops,
                   epochStop, chanClosed, hbOn, exits, srv, served>>

\* GetAndWatchEpoch returns the current epoch
StartGetEpoch == StartFetchEpoch /\ UNCHANGED startVars

\* GetAndWatchEpoch fails: Fatalf
StartGetEpochError == StartFetchEpochError /\ UNCHANGED startVars

\* go f.heartbeat(); then the call watchAll(roleParent, GetParents(f.epoch))
StartHeartbeat ==
    /\ epc = "setup"
    /\ hbOn' = TRUE
    /\ topoEpochs' = Append(topoEpochs, fEpoch)
    /\ wi' = 1
    /\ lstops' = << >>
    /\ epc' = "watchParents"
    /\ UNCHANGED <<log, epochData, selfID, inits, nw, stops, epochStop,
                   chanClosed, exits, srv, served>>

\* the arguments of the watchAll call in progress
CallRole == IF epc = "watchParents" THEN roleParent ELSE roleChild
CallIDs ==
    IF epc = "watchParents" THEN GetParents(Last(topoEpochs))
    ELSE GetChildren(Last(topoEpochs))

\* what watchAll sets up for one neighbor from the response of its Get
NewWatch(role, id, r) ==
    [who |-> role, id |-> id, path |-> WatchPath(role, id),
     resp |-> r, getIndex |-> EtcdIndex, watchIndex |-> WatchIndexAfterGet(r),
     receiver |-> << >>, cbst |-> "baseline", calls |-> << >>,
     wst |-> "polling", stop |-> FALSE]

\* watchAll, one iteration: baseline Get, Watch and delivery goroutines
WatchAllNeighbor ==
    /\ epc \in {"watchParents", "watchChildren"}
    /\ wi <= Len(CallIDs)
    /\ LET id == CallIDs[wi]
       IN nw' = Append(nw, NewWatch(CallRole, id,
                                    StoreGet(WatchPath(CallRole, id))))
    /\ lstops' = Append(lstops, Len(nw) + 1)
    /\ wi' = wi + 1
    /\ UNCHANGED <<log, epochVars, selfID, inits, topoEpochs, stops, epochStop,
                   chanClosed, hbOn, exits, srv, served>>

\* watchAll, one iteration: the Get fails other than by key not found
WatchAllNeighborError ==
    /\ epc \in {"watchParents", "watchChildren"}
    /\ wi <= Len(CallIDs)
    /\ epc' = "fatal"
    /\ hbOn' = FALSE
    /\ UNCHANGED <<log, epochData, selfID, inits, topoEpochs, wi, lstops, nw,
                   stops, epochStop, chanClosed, exits, srv, served>>

\* a plausible slip: f.stops = stops, which drops the handles of the
\* earlier watchAll call
WatchAllReturn_Overwrite ==
    /\ epc \in {"watchParents", "watchChildren"}
    /\ wi > Len(CallIDs)
    /\ stops' = lstops
    /\ lstops' = << >>
    /\ wi' = 1
    /\ IF epc = "watchParents"
       THEN /\ epc' = "watchChildren"
            /\ topoEpochs' = Append(topoEpochs, fEpoch)
       ELSE /\ epc' = "spawn"
            /\ UNCHANGED topoEpochs
    /\ UNCHANGED <<log, epochData, selfID, inits, nw, epochStop, chanClosed,
                   hbOn, exits, srv, served>>

\* watchAll returns: f.stops = append(f.stops, stops...); Start goes on to
\* watchAll(roleChild, GetChildren(f.epoch)) or to the server
WatchAllReturn ==
    /\ epc \in {"watchParents", "watchChildren"}
    /\ wi > Len(CallIDs)
    /\ stops' = stops \o lstops
    /\ lstops' = << >>
    /\ wi' = 1
    /\ IF epc = "watchParents"
       THEN /\ epc' = "watchChildren"
            /\ topoEpochs' = Append(topoEpochs, fEpoch)
       ELSE /\ epc' = "spawn"
            /\ UNCHANGED topoEpochs
    /\ UNCHANGED <<log, epochData, selfID, inits, nw, epochStop, chanClosed,
                   hbOn, exits, srv, served>>

\* go f.startHTTP()
StartSpawnHTTP ==
    /\ epc = "spawn"
    /\ srv' = "spawned"
    /\ epc' = "first"
    /\ UNCHANGED <<log, epochData, selfID, inits, topoEpochs, wi, lstops, nw,
                   stops, epochStop, chanClosed, hbOn, exits, served>>

\* f.task.SetEpoch(f.epoch), the first call
StartFirst == StartFirstSetEpoch /\ UNCHANGED startVars

\* a plausible slip: an epoch change re-establishes the neighbor watches
StartLoop_Rewatch ==
    /\ StartLoopIter
    /\ stops' = << >>
    /\ UNCHANGED <<selfID, inits, topoEpochs, wi, lstops, nw, epochStop,
                   chanClosed, hbOn, exits, srv, served>>

\* one iteration of the epoch loop
StartLoop == StartLoopIter /\ UNCHANGED startVars

\* f.epochChan is closed and drained: the loop ends, the deferred
\* releaseResources runs next
StartLoopEnd ==
    /\ epc = "loop"
    /\ epochChan = << >>
    /\ chanClosed
    /\ epc' = "release"
    /\ UNCHANGED <<log, epochData, startVars>>

\* releaseResources: every handle of f.stops is closed, the heartbeat is
\* stopped, Task.Exit is called
ReleaseResources ==
    /\ epc = "release"
    /\ nw' = [i \in DOMAIN nw |->
                 IF \E j \in DOMAIN stops : stops[j] = i
                 THEN [nw[i] EXCEPT !.stop = TRUE] ELSE nw[i]]
    /\ hbOn' = FALSE
    /\ exits' = exits + 1
    /\ epc' = "released"
    /\ UNCHANGED <<log, epochData, selfID, inits, topoEpochs, wi, lstops,
                   stops, epochStop, chanClosed, srv, served>>

\* shutdown is requested: f.epochStop is closed
CloseEpochStop ==
    /\ eWatchIndex # 0
    /\ epc \notin {"fatal", "release", "released"}
    /\ ~epochStop
    /\ epochStop' = TRUE
    /\ UNCHANGED <<log, epochVars, selfID, inits, topoEpochs, wi, lstops, nw,
                   stops, chanClosed, hbOn, exits, srv, served>>

\* the epoch forwarding unit passes on the next published value
StartEpochForward ==
    /\ ~chanClosed
    /\ EpochForward
    /\ UNCHANGED startVars

\* the epoch forwarding unit sees the stop signal: it ends and closes
\* f.epochChan
EpochForwardStop ==
    /\ eWatchIndex # 0
    /\ epc # "fatal"
    /\ epochStop
    /\ ~chanClosed
    /\ chanClosed' = TRUE
    /\ UNCHANGED <<log, epochVars, selfID, inits, topoEpochs, wi, lstops, nw,
                   stops, epochStop, hbOn, exits, srv, served>>

\* startHTTP: http.Serve accepts on the listener
StartHttpServe ==
    /\ epc # "fatal"
    /\ srv = "spawned"
    /\ srv' = "serving"
    /\ UNCHANGED <<log, epochVars, selfID, inits, topoEpochs, wi, lstops, nw,
                   stops, epochStop, chanClosed, hbOn, exits, served>>

\* the handler dispatches a data request to ServeAsParent / ServeAsChild
ServeRequest ==
    /\ epc # "fatal"
    /\ srv = "serving"
    /\ ~served
    /\ served' = TRUE
    /\ UNCHANGED <<log, epochVars, selfID, inits, topoEpochs, wi, lstops, nw,
                   stops, epochStop, chanClosed, hbOn, exits, srv>>

\* the other variables of this part, for the steps of the goroutines of a
\* neighbor watch
watchFrame == <<log, epochVars, selfID, inits, topoEpochs, wi, lstops, stops,
                epochStop, chanClosed, hbOn, exits, srv, served>>

NbrCallback(w, v) == [cb |-> TaskCallback(w.who), id |-> w.id, meta |-> v]

\* etcd client Watch goroutine of watch i: the next event on its key
NbrPoll(i) ==
    /\ epc # "fatal"
    /\ nw[i].wst = "polling"
    /\ Len(nw[i].receiver) < ReceiverCap
    /\ LET e == WatchNext(nw[i].path, nw[i].watchIndex)
       IN /\ e # 0
          /\ nw' = [nw EXCEPT ![i].receiver = Append(@, log[e]),
                              ![i].watchIndex = e + 1]
    /\ UNCHANGED watchFrame

\* etcd client Watch goroutine of watch i: the stop channel fires while it
\* waits for the store; it returns and closes the receiver
NbrStopped(i) ==
    /\ epc # "fatal"
    /\ nw[i].wst = "polling"
    /\ nw[i].stop
    /\ nw' = [nw EXCEPT ![i].wst = "stopped"]
    /\ UNCHANGED watchFrame

\* delivery goroutine of watch i: the baseline value, if one was read
NbrDeliverBaseline(i) ==
    /\ epc # "fatal"
    /\ nw[i].cbst = "baseline"
    /\ nw' = [nw EXCEPT ![i].cbst = "loop",
                        ![i].calls = IF nw[i].resp.found
                                     THEN Append(@, NbrCallback(nw[i], nw[i].resp.value))
                                     ELSE @]
    /\ UNCHANGED watchFrame

\* a plausible slip: the neighbors share one delivery goroutine, which a
\* blocked callback holds up
NbrDeliverEvent_Shared(i) ==
    /\ epc # "fatal"
    /\ \A j \in DOMAIN nw : nw[j].cbst # "stuck"
    /\ nw[i].cbst = "loop"
    /\ nw[i].receiver # << >>
    /\ LET ev == Head(nw[i].receiver)
       IN nw' = [nw EXCEPT ![i].receiver = Tail(@),
                           ![i].calls = IF ev.action # "set" THEN @
                                        ELSE Append(@, NbrCallback(nw[i], ev.value))]
    /\ UNCHANGED watchFrame

\* delivery goroutine of watch i: one iteration of the range over receiver
NbrDeliverEvent(i) ==
    /\ epc # "fatal"
    /\ nw[i].cbst = "loop"
    /\ nw[i].receiver # << >>
    /\ LET ev == Head(nw[i].receiver)
       IN nw' = [nw EXCEPT ![i].receiver = Tail(@),
                           ![i].calls = IF ev.action # "set" THEN @
                                        ELSE Append(@, NbrCallback(nw[i], ev.value))]
    /\ UNCHANGED watchFrame

\* delivery goroutine of watch i: the receiver is closed and drained
NbrDeliverEnd(i) ==
    /\ epc # "fatal"
    /\ nw[i].cbst = "loop"
    /\ nw[i].receiver = << >>
    /\ nw[i].wst = "stopped"
    /\ nw' = [nw EXCEPT ![i].cbst = "done"]
    /\ UNCHANGED watchFrame

\* the task's callback for the neighbor of watch i never returns
NbrCallbackBlocks(i) ==
    /\ epc # "fatal"
    /\ \A j \in DOMAIN nw : nw[j].cbst # "stuck"
    /\ \/ nw[i].cbst = "baseline" /\ nw[i].resp.found
       \/ /\ nw[i].cbst = "loop"
          /\ nw[i].receiver # << >>
          /\ Head(nw[i].receiver).action = "set"
    /\ nw' = [nw EXCEPT ![i].cbst = "stuck"]
    /\ UNCHANGED watchFrame

InitStart ==
    /\ log = InitLog
    /\ WatchIdle
    /\ NodesIdle
    /\ StartIdle
    /\ ServeIdle
    /\ LiveIdle
    /\ epc = "acquire"
    /\ fEpoch = 0
    /\ eWatchIndex = 0
    /\ epochChan = << >>
    /\ epochCalls = << >>
    /\ eGetIndex = -1
    /\ blockedSeen = FALSE

idleVars == <<watchVars, nodeVars, serveVars, liveVars>>

\* the steps of Start itself, errors aside
StartSteps ==
    \/ StartAcquire
    \/ StartTaskInit
    \/ StartGetEpoch
    \/ StartHeartbeat
    \/ WatchAllNeighbor
    \/ WatchAllReturn
    \/ StartSpawnHTTP
    \/ StartFirst
    \/ StartLoop

\* the store traffic followed while a node's whole run is followed
ShutdownTraffic == Len(log) < Len(InitLog) + MaxShutdownLog

\* everything one node does, from occupyTask's return to its release
NextStart ==
    \/ \E k \in NeighborKeys :
          ShutdownTraffic /\ NeighborFlags(k) /\ UNCHANGED idleVars
    \/ \E e \in 1..MaxEpoch :
          ShutdownTraffic /\ ControllerPublish(e) /\ UNCHANGED idleVars
    \/ StartAcquire /\ UNCHANGED idleVars
    \/ StartTaskInit /\ UNCHANGED idleVars
    \/ StartGetEpoch /\ UNCHANGED idleVars
    \/ StartGetEpochError /\ UNCHANGED idleVars
    \/ StartHeartbeat /\ UNCHANGED idleVars
    \/ WatchAllNeighbor /\ UNCHANGED idleVars
    \/ WatchAllNeighborError /\ UNCHANGED idleVars
    \/ WatchAllReturn /\ UNCHANGED idleVars
    \/ StartSpawnHTTP /\ UNCHANGED idleVars
    \/ StartFirst /\ UNCHANGED idleVars
    \/ StartLoop /\ UNCHANGED idleVars
    \/ StartLoopEnd /\ UNCHANGED idleVars
    \/ ReleaseResources /\ UNCHANGED idleVars
    \/ CloseEpochStop /\ UNCHANGED idleVars
    \/ StartEpochForward /\ UNCHANGED idleVars
    \/ EpochForwardStop /\ UNCHANGED idleVars
    \/ StartHttpServe /\ UNCHANGED idleVars
    \/ ServeRequest /\ UNCHANGED idleVars
    \/ \E i \in DOMAIN nw : NbrPoll(i) /\ UNCHANGED idleVars
    \/ \E i \in DOMAIN nw : NbrStopped(i) /\ UNCHANGED idleVars
    \/ \E i \in DOMAIN nw : NbrDeliverBaseline(i) /\ UNCHANGED idleVars
    \/ \E i \in DOMAIN nw : NbrDeliverEvent(i) /\ UNCHANGED idleVars
    \/ \E i \in DOMAIN nw : NbrDeliverEnd(i) /\ UNCHANGED idleVars

SpecStart == InitStart /\ [][NextStart]_vars

\* a node that is shut down by closing f.epochStop (the requests its server
\* handles play no part in the release)
NextShutdown ==
    \/ \E k \in NeighborKeys :
          ShutdownTraffic /\ NeighborFlags(k) /\ UNCHANGED idleVars
    \/ \E e \in 1..MaxEpoch :
          ShutdownTraffic /\ ControllerPublish(e) /\ UNCHANGED idleVars
    \/ StartAcquire /\ UNCHANGED idleVars
    \/ StartTaskInit /\ UNCHANGED idleVars
    \/ StartGetEpoch /\ UNCHANGED idleVars
    \/ StartGetEpochError /\ UNCHANGED idleVars
    \/ StartHeartbeat /\ UNCHANGED idleVars
    \/ WatchAllNeighbor /\ UNCHANGED idleVars
    \/ WatchAllNeighborError /\ UNCHANGED idleVars
    \/ WatchAllReturn /\ UNCHANGED idleVars
    \/ StartSpawnHTTP /\ UNCHANGED idleVars
    \/ StartFirst /\ UNCHANGED idleVars
    \/ StartLoop /\ UNCHANGED idleVars
    \/ StartLoopEnd /\ UNCHANGED idleVars
    \/ ReleaseResources /\ UNCHANGED idleVars
    \/ CloseEpochStop /\ UNCHANGED idleVars
    \/ StartEpochForward /\ UNCHANGED idleVars
    \/ EpochForwardStop /\ UNCHANGED idleVars
    \/ \E i \in DOMAIN nw : NbrPoll(i) /\ UNCHANGED idleVars
    \/ \E i \in DOMAIN nw : NbrStopped(i) /\ UNCHANGED idleVars
    \/ \E i \in DOMAIN nw : NbrDeliverBaseline(i) /\ UNCHANGED idleVars
    \/ \E i \in DOMAIN nw : NbrDeliverEvent(i) /\ UNCHANGED idleVars
    \/ \E i \in DOMAIN nw : NbrDeliverEnd(i) /\ UNCHANGED idleVars

\* every goroutine that can take a step eventually takes one
SpecShutdown ==
    /\ InitStart
    /\ [][NextShutdown]_vars
    /\ WF_vars((StartSteps \/ StartLoopEnd \/ ReleaseResources)
                  /\ UNCHANGED idleVars)
    /\ WF_vars((StartEpochForward \/ EpochForwardStop) /\ UNCHANGED idleVars)
    /\ \A i \in 1..MaxWatches :
          /\ WF_vars(i \in DOMAIN nw
                     /\ (NbrPoll(i) \/ NbrStopped(i)) /\ UNCHANGED idleVars)
          /\ WF_vars(i \in DOMAIN nw
                     /\ (NbrDeliverBaseline(i) \/ NbrDeliverEvent(i)
                           \/ NbrDeliverEnd(i))
                     /\ UNCHANGED idleVars)

\* a node that keeps running, with a task whose metadata callback may block
NextIsolation ==
    \/ \E k \in NeighborKeys : NeighborFlags(k) /\ UNCHANGED idleVars
    \/ \E e \in 1..MaxEpoch : ControllerPublish(e) /\ UNCHANGED idleVars
    \/ StartAcquire /\ UNCHANGED idleVars
    \/ StartTaskInit /\ UNCHANGED idleVars
    \/ StartGetEpoch /\ UNCHANGED idleVars
    \/ StartHeartbeat /\ UNCHANGED idleVars
    \/ WatchAllNeighbor /\ UNCHANGED idleVars
    \/ WatchAllReturn /\ UNCHANGED idleVars
    \/ StartSpawnHTTP /\ UNCHANGED idleVars
    \/ StartFirst /\ UNCHANGED idleVars
    \/ StartLoop /\ UNCHANGED idleVars
    \/ StartEpochForward /\ UNCHANGED idleVars
    \/ \E i \in DOMAIN nw : NbrPoll(i) /\ UNCHANGED idleVars
    \/ \E i \in DOMAIN nw : NbrDeliverBaseline(i) /\ UNCHANGED idleVars
    \/ \E i \in DOMAIN nw : NbrDeliverEvent(i) /\ UNCHANGED idleVars
    \/ \E i \in DOMAIN nw : NbrCallbackBlocks(i) /\ UNCHANGED idleVars

SpecIsolation ==
    /\ InitStart
    /\ [][NextIsolation]_vars
    /\ WF_vars(StartSteps /\ UNCHANGED idleVars)
    /\ WF_vars(StartEpochForward /\ UNCHANGED idleVars)
    /\ \A i \in 1..MaxWatches :
          /\ WF_vars(i \in DOMAIN nw /\ NbrPoll(i) /\ UNCHANGED idleVars)
          /\ WF_vars(i \in DOMAIN nw
                     /\ (NbrDeliverBaseline(i) \/ NbrDeliverEvent(i))
                     /\ UNCHANGED idleVars)

-----------------------------------------------------------------------------
(* The data-plane server: one handler per request, one channel per request *)

Requesters == {1, 2, 5}
Chunks == {"a", "b"}

\* the role of the requester in the topology of the node's epoch decides the
\* handler: a parent is served as its child, a child as its parent
ServeCallback(from) ==
    IF <<from>> = GetParents(fEpoch) THEN "ServeAsChild"
    ELSE IF <<from>> = GetChildren(fEpoch) THEN "ServeAsParent"
    ELSE "none"

\* a request (requesting task, request string) arrives and is dispatched on
\* its own goroutine with its own channel; a requester that is no neighbor
\* gets an error status
RequestArrives(r, from, q) ==
    /\ reqs[r].st = "none"
    /\ reqs' = [reqs EXCEPT ![r] =
                   [NoRequest EXCEPT !.st = IF ServeCallback(from) = "none"
                                            THEN "error" ELSE "open",
                                     !.from = from, !.req = q,
                                     !.cb = ServeCallback(from)]]

\* the task pushes a chunk into the channel of request r
TaskPushes(r, c) ==
    /\ reqs[r].st = "open"
    /\ Len(reqs[r].pushed) < MaxChunks
    /\ Len(reqs[r].ch) < DataReceiverCap
    /\ reqs' = [reqs EXCEPT ![r].ch = Append(@, c),
                            ![r].pushed = Append(@, c)]

\* the task has pushed everything for request r: it closes the channel
TaskCloses(r) ==
    /\ reqs[r].st = "open"
    /\ reqs' = [reqs EXCEPT ![r].st = "closed"]

\* a plausible slip: the handlers drain one channel shared by all requests
ServerDrains_Shared(r) ==
    /\ reqs[r].st \in {"open", "closed"}
    /\ \E q \in Requests :
          /\ reqs[q].ch # << >>
          /\ reqs' = [x \in Requests |->
                         IF x = r /\ x = q
                         THEN [reqs[x] EXCEPT !.ch = Tail(@),
                                              !.body = Append(@, Head(reqs[q].ch))]
                         ELSE IF x = r
                         THEN [reqs[x] EXCEPT !.body = Append(@, Head(reqs[q].ch))]
                         ELSE IF x = q
                         THEN [reqs[x] EXCEPT !.ch = Tail(@)]
                         ELSE reqs[x]]

\* the handler of request r writes the next chunk of its channel to the
\* response as it arrives
ServerDrains(r) ==
    /\ reqs[r].st \in {"open", "closed"}
    /\ reqs[r].ch # << >>
    /\ reqs' = [reqs EXCEPT ![r].ch = Tail(@),
                            ![r].body = Append(@, Head(reqs[r].ch))]

\* the channel of request r is closed and drained: the response is complete
ServerResponds(r) ==
    /\ reqs[r].st = "closed"
    /\ reqs[r].ch = << >>
    /\ reqs' = [reqs EXCEPT ![r].st = "done"]

InitServe ==
    /\ log = InitLog
    /\ WatchIdle
    /\ EpochIdle
    /\ NodesIdle
    /\ StartIdle
    /\ ServeIdle
    /\ LiveIdle

serveFrame == <<storeVars, watchVars, epochVars, nodeVars, startVars, liveVars>>

NextServe ==
    \/ \E r \in Requests, from \in Requesters :
          RequestArrives(r, from, "chunk1") /\ UNCHANGED serveFrame
    \/ \E r \in Requests, c \in Chunks : TaskPushes(r, c) /\ UNCHANGED serveFrame
    \/ \E r \in Requests : TaskCloses(r) /\ UNCHANGED serveFrame
    \/ \E r \in Requests : ServerDrains(r) /\ UNCHANGED serveFrame
    \/ \E r \in Requests : ServerResponds(r) /\ UNCHANGED serveFrame

SpecServe == InitServe /\ [][NextServe]_vars

-----------------------------------------------------------------------------
(* Heartbeat, marker expiry and failure detection, with a clock *)

\* a plausible slip: the refresh rewrites the value without renewing the
\* lifetime of the marker
HeartbeatTick_NoRenew ==
    /\ beating
    /\ clock = nextBeat
    /\ nextBeat' = clock + HeartbeatInterval
    /\ UNCHANGED <<clock, beating, markerExp, expiredAt, stoppedAt, reported>>

\* heartbeat: on its interval the node refreshes its marker, which then
\* lives for another TTL
HeartbeatTick ==
    /\ beating
    /\ clock = nextBeat
    /\ markerExp' = clock + TTL
    /\ nextBeat' = clock + HeartbeatInterval
    /\ UNCHANGED <<clock, beating, expiredAt, stoppedAt, reported>>

\* the node stops refreshing (it crashes or is shut down)
NodeStops ==
    /\ beating
    /\ beating' = FALSE
    /\ nextBeat' = Never
    /\ stoppedAt' = clock
    /\ UNCHANGED <<clock, markerExp, expiredAt, reported>>

\* the store expires a marker whose lifetime is over
MarkerExpires ==
    /\ markerExp = clock
    /\ markerExp' = Never
    /\ expiredAt' = clock
    /\ UNCHANGED <<clock, beating, nextBeat, stoppedAt, reported>>

\* failure detection of peer p: its watch on the marker returns the expiry
\* event and the peer reports the failure
PeerReports(p) ==
    /\ expiredAt # Never
    /\ reported[p] = Never
    /\ reported' = [reported EXCEPT ![p] = clock]
    /\ UNCHANGED <<clock, beating, nextBeat, markerExp, expiredAt, stoppedAt>>

\* time passes, but not beyond a due heartbeat, the end of the marker's
\* lifetime, or the network delay bound of an event on its way to a peer
Tick ==
    /\ clock < MaxTime
    /\ beating => clock < nextBeat
    /\ markerExp # Never => clock < markerExp
    /\ expiredAt # Never =>
          \A p \in Peers : reported[p] # Never \/ clock < expiredAt + NetDelay
    /\ clock' = clock + 1
    /\ UNCHANGED <<beating, nextBeat, markerExp, expiredAt, stoppedAt, reported>>

\* a node that holds a slot and has started its heartbeat
InitLiveness ==
    /\ log = InitLog
    /\ WatchIdle
    /\ EpochIdle
    /\ NodesIdle
    /\ StartIdle
    /\ ServeIdle
    /\ clock = 0
    /\ beating = TRUE
    /\ nextBeat = HeartbeatInterval
    /\ markerExp = TTL
    /\ expiredAt = Never
    /\ stoppedAt = Never
    /\ reported = [p \in Peers |-> Never]

liveFrame == <<storeVars, watchVars, epochVars, nodeVars, startVars, serveVars>>

NextLiveness ==
    \/ HeartbeatTick /\ UNCHANGED liveFrame
    \/ NodeStops /\ UNCHANGED liveFrame
    \/ MarkerExpires /\ UNCHANGED liveFrame
    \/ \E p \in Peers : PeerReports(p) /\ UNCHANGED liveFrame
    \/ Tick /\ UNCHANGED liveFrame

SpecLiveness == InitLiveness /\ [][NextLiveness]_vars

-----------------------------------------------------------------------------
(* Nodes racing for the task slots *)

Init ==
    /\ log = InitLog
    /\ WatchIdle
    /\ EpochIdle
    /\ dir \in {CleanDir, CorruptDir}
    /\ owner = [s \in Slots |-> None]
    /\ pc = [n \in Nodes |-> "unstarted"]
    /\ pos = [n \in Nodes |-> 1]
    /\ taskID = [n \in Nodes |-> 0]
    /\ occ = [n \in Nodes |-> "none"]
    /\ hb = [n \in Nodes |-> FALSE]
    /\ http = [n \in Nodes |-> "none"]
    /\ passed = [n \in Nodes |-> {}]
    /\ failed = [n \in Nodes |-> FALSE]
    /\ crashes = 0
    /\ expired = FALSE
    /\ StartIdle
    /\ ServeIdle
    /\ LiveIdle

otherVars == <<storeVars, watchVars, epochVars, startVars, serveVars,
               liveVars>>

Next ==
    \/ \E n \in Nodes : StartOccupy(n) /\ UNCHANGED otherVars
    \/ \E n \in Nodes : StartOccupyError(n) /\ UNCHANGED otherVars
    \/ \E n \in Nodes : OccupyIter(n) /\ UNCHANGED otherVars
    \/ \E n \in Nodes : OccupyReturnFull(n) /\ UNCHANGED otherVars
    \/ \E n \in Nodes : StandbyError(n) /\ UNCHANGED otherVars
    \/ \E n \in Nodes : StandbyReturn(n) /\ UNCHANGED otherVars
    \/ \E n \in Nodes : TaskInit(n) /\ UNCHANGED otherVars
    \/ \E n \in Nodes : FetchEpoch(n) /\ UNCHANGED otherVars
    \/ \E n \in Nodes : FetchEpochError(n) /\ UNCHANGED otherVars
    \/ \E n \in Nodes : WatchAllDone(n) /\ UNCHANGED otherVars
    \/ \E n \in Nodes : WatchAllError(n) /\ UNCHANGED otherVars
    \/ \E n \in Nodes : HttpServe(n) /\ UNCHANGED otherVars
    \/ \E n \in Nodes : HttpError(n) /\ UNCHANGED otherVars
    \/ \E n \in Nodes : Heartbeat(n) /\ UNCHANGED otherVars
    \/ \E n \in Nodes : Crash(n) /\ UNCHANGED otherVars
    \/ \E s \in Slots : Expire(s) /\ UNCHANGED otherVars

Spec == Init /\ [][Next]_vars

\* progress of a running node through occupyTask and Task.Init
NodeProgress(n) ==
    (OccupyIter(n) \/ OccupyReturnFull(n) \/ TaskInit(n)) /\ UNCHANGED otherVars

\* failure and takeover: acquisition, Task.Init, the start of the heartbeat,
\* crashes and marker expiry (the steps of Start after the heartbeat has
\* started play no part in who holds a slot)
NextTakeover ==
    \/ \E n \in Nodes : StartOccupy(n) /\ UNCHANGED otherVars
    \/ \E n \in Nodes : StartOccupyError(n) /\ UNCHANGED otherVars
    \/ \E n \in Nodes : OccupyIter(n) /\ UNCHANGED otherVars
    \/ \E n \in Nodes : OccupyReturnFull(n) /\ UNCHANGED otherVars
    \/ \E n \in Nodes : StandbyError(n) /\ UNCHANGED otherVars
    \/ \E n \in Nodes : StandbyReturn(n) /\ UNCHANGED otherVars
    \/ \E n \in Nodes : TaskInit(n) /\ UNCHANGED otherVars
    \/ \E n \in Nodes : FetchEpoch(n) /\ UNCHANGED otherVars
    \/ \E n \in Nodes : Heartbeat(n) /\ UNCHANGED otherVars
    \/ \E n \in Nodes : Crash(n) /\ UNCHANGED otherVars
    \/ \E s \in Slots : Expire(s) /\ UNCHANGED otherVars

\* a running process makes progress; markers nobody refreshes expire
SpecTakeover ==
    /\ Init
    /\ [][NextTakeover]_vars
    /\ \A n \in Nodes : WF_vars(NodeProgress(n))
    /\ \A s \in Slots : WF_vars(Expire(s) /\ UNCHANGED otherVars)

\* nodes racing through occupyTask alone: list and conditional-claim steps
NextRace ==
    \/ \E n \in Nodes : StartOccupy(n) /\ UNCHANGED otherVars
    \/ \E n \in Nodes : StartOccupyError(n) /\ UNCHANGED otherVars
    \/ \E n \in Nodes : OccupyIter(n) /\ UNCHANGED otherVars
    \/ \E n \in Nodes : OccupyReturnFull(n) /\ UNCHANGED otherVars

SpecRace == Init /\ [][NextRace]_vars

-----------------------------------------------------------------------------
(* Properties of slot acquisition and of the node lifecycle *)

\* the nodes occupyTask returned slot s to
ReturnedTo(s) == { n \in Nodes : occ[n] = "ok" /\ taskID[n] = s }

\* C1: M >= N nodes race through occupyTask against N unclaimed slots: no ID
\* is returned to two nodes, and once every node has returned, each slot is
\* claimed by exactly one node, none is left unclaimed, and exactly M - N
\* nodes got "no unassigned task" and are on the standby path.
C1_EachSlotClaimedOnce ==
    /\ \A s \in Slots : Cardinality(ReturnedTo(s)) <= 1
    /\ (\A n \in Nodes : occ[n] \in {"ok", "full"}) =>
          /\ \A s \in Slots : /\ Cardinality(ReturnedTo(s)) = 1
                              /\ owner[s] \in ReturnedTo(s)
          /\ Cardinality({ n \in Nodes : occ[n] = "full" }) = NumNodes - NumSlots
          /\ \A n \in Nodes : occ[n] = "full" => pc[n] = "standby"

\* C1 witness: all nodes have returned from occupyTask, two of them with
\* different IDs, one with the error.
C1_Witness ==
    /\ \A n \in Nodes : occ[n] \in {"ok", "full"}
    /\ \E n, m \in Nodes : /\ occ[n] = "ok" /\ occ[m] = "ok"
                           /\ taskID[n] = 0 /\ taskID[m] = 1
    /\ \E n \in Nodes : occ[n] = "full" /\ pc[n] = "standby"

\* C2: no two live nodes have both called Task.Init with the same task ID.
C2_OneLiveHolderPerID ==
    \A n, m \in Nodes :
        (n # m /\ Live(n) /\ Live(m)
            /\ "init" \in passed[n] /\ "init" \in passed[m])
        => taskID[n] # taskID[m]

\* a node is still to try slot s in its occupyTask loop
Trying(n, s) ==
    /\ pc[n] = "acquiring"
    /\ \E i \in pos[n]..Len(dir) : ParseUint(dir[i]) = s

C9_RunningAfterServerUp ==
    \A n \in Nodes :
        /\ pc[n] = "running" =>
              /\ StartupSteps \subseteq passed[n]
              /\ http[n] = "serving"
        /\ failed[n] => pc[n] = "fatal"

\* C9 (amended): a node is Running only after Task.Init, the epoch fetch and
\* the neighbor watches have succeeded and the server goroutine has been
\* started (it may not be serving yet); a node with a failed step or a
\* failed server is terminated for good.
C9_RunningAfterStartup ==
    \A n \in Nodes :
        /\ pc[n] = "running" =>
              /\ StartupSteps \subseteq passed[n]
              /\ http[n] \in {"spawned", "serving"}
        /\ failed[n] => pc[n] = "fatal"

\* C9 witness: a node is in the epoch loop while its server goroutine has
\* not begun to serve, and another node was terminated by a failed step.
C9_Witness ==
    \E n, m \in Nodes :
        /\ pc[n] = "running" /\ http[n] = "spawned"
        /\ failed[m] /\ pc[m] = "fatal" /\ "init" \in passed[m]

\* C10: a node whose occupyTask returned an error never calls Task.Init:
\* only nodes that claimed a slot are initialised.
C10_InitOnlyAfterClaim ==
    \A n \in Nodes : "init" \in passed[n] => occ[n] = "ok"

\* the slots whose marker is node n's
Claimed(n) == { s \in Slots : owner[s] = n }

\* C18: one call of occupyTask goes through the listed entries in order,
\* skips the entries whose key is not a number, returns at its first
\* successful claim (so it claims at most one slot), and returns "no
\* unassigned task" only after every entry, having changed no slot.
C18_OneClaimInListedOrder ==
    \A n \in Nodes :
        /\ Cardinality(Claimed(n)) <= 1
        /\ pc[n] = "acquiring" => Claimed(n) = {}
        /\ occ[n] = "ok" =>
              /\ Claimed(n) = {taskID[n]}
              /\ ParseUint(dir[pos[n]]) = taskID[n]
              /\ \A i \in 1..(pos[n] - 1) :
                    LET id == ParseUint(dir[i])
                    IN id < 0 \/ owner[id] \notin {None, n}
        /\ occ[n] = "full" =>
              /\ pos[n] > Len(dir)
              /\ Claimed(n) = {}
              /\ \A i \in 1..Len(dir) :
                    LET id == ParseUint(dir[i])
                    IN id < 0 \/ owner[id] \notin {None, n}

\* C18 witness: in a listing with a corrupted first entry, one node has
\* skipped it and a taken slot and claimed the next one, and another node
\* has gone through the whole listing and returned the error.
C18_Witness ==
    /\ dir = CorruptDir
    /\ \E n, m \in Nodes :
          /\ occ[n] = "ok" /\ pos[n] = 3 /\ Claimed(n) = {1}
          /\ occ[m] = "full" /\ pos[m] = Len(dir) + 1 /\ Claimed(m) = {}

-----------------------------------------------------------------------------
(* Properties of the neighbor watch (SpecWatch) *)

IsPrefix(s, t) == Len(s) <= Len(t) /\ SubSeq(t, 1, Len(s)) = s

RECURSIVE SetCallsFrom(_)
\* the callbacks for the set events on the metadata key at index >= lo,
\* in log order
SetCallsFrom(lo) ==
    IF lo > Len(log) THEN << >>
    ELSE IF log[lo].key = MetaKey /\ log[lo].action = "set"
         THEN <<Callback(log[lo].value)>> \o SetCallsFrom(lo + 1)
         ELSE SetCallsFrom(lo + 1)

\* the metadata key has only ever been written, never removed
NoDeletes == \A i \in KeyEvents(MetaKey) : log[i].action = "set"

\* the pipeline has drained: nothing pending in the store or the receiver
WatchQuiescent ==
    /\ wpc = "watching"
    /\ cbpc = "loop"
    /\ receiver = << >>
    /\ WatchNext(MetaKey, watchIndex) = 0

\* the baseline value, if one was read, then every write after the read
BaselineThenLater ==
    (IF resp.found THEN <<Callback(resp.value)>> ELSE << >>)
        \o SetCallsFrom(getIndex + 1)

C4_NoValueDeliveredTwice ==
    \A i, j \in 1..Len(calls) : i # j => calls[i].meta # calls[j].meta

\* C5: when the baseline read finds no key, no baseline callback is made and
\* the task receives exactly the writes made after the baseline read.
C5_OnlyWritesAfterMissingBaseline ==
    (wpc = "watching" /\ ~resp.found) =>
        /\ IsPrefix(calls, SetCallsFrom(getIndex + 1))
        /\ WatchQuiescent => calls = SetCallsFrom(getIndex + 1)

-----------------------------------------------------------------------------
(* Properties of epoch delivery (SpecEpoch) *)

RECURSIVE EpochWritesFrom(_)
\* the values written to the epoch key at index >= lo, in log order
EpochWritesFrom(lo) ==
    IF lo > Len(log) THEN << >>
    ELSE IF log[lo].key = EpochKey /\ log[lo].action = "set"
         THEN <<log[lo].value>> \o EpochWritesFrom(lo + 1)
         ELSE EpochWritesFrom(lo + 1)

\* the value of the epoch key when the store index was idx
EpochAt(idx) == log[Max({ i \in KeyEvents(EpochKey) : i <= idx })].value

\* the initial epoch, then every value published after the initial read
InitialThenPublished == <<EpochAt(eGetIndex)>> \o EpochWritesFrom(eGetIndex + 1)

\* nothing is pending in the store or in f.epochChan
EpochQuiescent ==
    /\ epc = "loop"
    /\ epochChan = << >>
    /\ WatchNext(EpochKey, eWatchIndex) = 0

NonDecreasing(s) == \A i, j \in 1..Len(s) : i <= j => s[i] <= s[j]

\* C6: SetEpoch is called first with the epoch read at startup and then once
\* for every value published afterwards, in publication order; nothing is
\* dropped or overwritten when f.epochChan is full.
C6_EpochLossFreeOrdered ==
    (epc \in {"setup", "first", "loop"}) =>
        /\ IsPrefix(epochCalls, InitialThenPublished)
        /\ epc = "loop" => Len(epochCalls) >= 1
        /\ EpochQuiescent => epochCalls = InitialThenPublished

\* C6 witness: key at 0, then 1 and 2 published, at least one of them while
\* f.epochChan was full; SetEpoch was called with 0, 1, 2.
C6_Witness ==
    /\ EpochQuiescent
    /\ blockedSeen
    /\ epochCalls = <<0, 1, 2>>

\* C7 (as stated): the SetEpoch arguments are non-decreasing whatever is
\* written to the epoch key.
C7_SetEpochNonDecreasing == NonDecreasing(epochCalls)

\* C7 (amended): while the values written to the epoch key are
\* non-decreasing, the SetEpoch arguments are non-decreasing.
C7_NonDecreasingIfKeyIs ==
    NonDecreasing(EpochWritesFrom(1)) => NonDecreasing(epochCalls)

\* C7 witness: the initial read raced with a write (the key had already
\* advanced when it was read), later values followed, all were delivered.
C7_Witness ==
    /\ NonDecreasing(EpochWritesFrom(1))
    /\ EpochQuiescent
    /\ EpochAt(eGetIndex) >= 1
    /\ Len(epochCalls) >= 3
    /\ epochCalls[1] < epochCalls[Len(epochCalls)]

-----------------------------------------------------------------------------
(* Further properties of the neighbor watch (SpecWatch) *)

IsSuffix(s, t) ==
    Len(s) <= Len(t) /\ SubSeq(t, Len(t) - Len(s) + 1, Len(t)) = s

\* the baseline value, if one was read, then the set events from the wait
\* index the watch was started with
BaselineThenSets ==
    (IF resp.found THEN <<Callback(resp.value)>> ELSE << >>)
        \o SetCallsFrom(IF resp.found THEN getIndex + 1 ELSE 1)

\* C16: in a neighbor's stream the baseline value, when one was read, is
\* delivered before any watch event, and after it only "set" events cause a
\* callback: a delete causes none and later sets are still delivered.
C16_BaselineFirstOnlySets ==
    wpc = "watching" =>
        /\ cbpc = "baseline" => calls = << >>
        /\ IsPrefix(calls, BaselineThenSets)
        /\ WatchQuiescent => calls = BaselineThenSets

\* C16 witness: a baseline was read, then the key was deleted and set again;
\* the task got the baseline and the later set, nothing for the delete.
C16_Witness ==
    /\ WatchQuiescent
    /\ resp.found
    /\ \E i, j \in KeyEvents(MetaKey) :
          /\ getIndex < i /\ i < j
          /\ log[i].action = "delete" /\ log[j].action = "set"
    /\ Len(calls) = 2
    /\ calls = BaselineThenSets

\* C17: a baseline Get that fails with another error than key not found
\* ends the node before any watch or callback for the neighbor; key not
\* found does not: the watch is started and later writes are delivered.
C17_OnlyOtherErrorsFatal ==
    /\ wpc = "fatal" =>
          /\ calls = << >> /\ receiver = << >>
          /\ cbpc = "idle" /\ watchIndex = 0 /\ getIndex = -1
    /\ (wpc = "watching" /\ ~resp.found) =>
          /\ watchIndex >= 1
          /\ cbpc # "idle"
          /\ WatchQuiescent => IsSuffix(SetCallsFrom(getIndex + 1), calls)

\* C17 witness: the neighbor has published, the baseline Get failed, and
\* nothing was started or delivered.
C17_Witness ==
    /\ wpc = "fatal"
    /\ KeyExists(MetaKey)
    /\ calls = << >>

-----------------------------------------------------------------------------
(* Properties of one node's Start (SpecStart, SpecShutdown, SpecIsolation) *)

RECURSIVE NbrSetCalls(_, _)
\* the callbacks for the set events on the key of watch w at index >= lo
NbrSetCalls(w, lo) ==
    IF lo > Len(log) THEN << >>
    ELSE IF log[lo].key = w.path /\ log[lo].action = "set"
         THEN <<NbrCallback(w, log[lo].value)>> \o NbrSetCalls(w, lo + 1)
         ELSE NbrSetCalls(w, lo + 1)

\* what the stream of watch w carries: the baseline, if one was read, then
\* the set events from the wait index the watch started with
NbrExpected(w) ==
    (IF w.resp.found THEN <<NbrCallback(w, w.resp.value)>> ELSE << >>)
        \o NbrSetCalls(w, IF w.resp.found THEN w.getIndex + 1 ELSE 1)

\* C12: when the task's callback for one neighbor blocks forever, every
\* other neighbor's stream is still delivered, each in its own order, and
\* the epochs are still passed to SetEpoch.
C12_NeighborsIsolated ==
    /\ [](\A i \in DOMAIN nw : IsPrefix(nw[i].calls, NbrExpected(nw[i])))
    /\ \A i \in 1..MaxWatches :
          <>[](/\ i \in DOMAIN nw
               /\ nw[i].cbst = "stuck" \/ nw[i].calls = NbrExpected(nw[i]))
    /\ <>[](eWatchIndex # 0 /\ epochCalls = InitialThenPublished)

\* C12 witness: the callback for one neighbor is blocked; after that the
\* other neighbor's write and a published epoch have been delivered.
C12_Witness ==
    \E i, j \in DOMAIN nw :
        /\ nw[i].cbst = "stuck"
        /\ nw[j].cbst = "loop"
        /\ nw[j].calls # << >>
        /\ nw[j].calls = NbrExpected(nw[j])
        /\ Len(epochCalls) >= 2
        /\ epochCalls = InitialThenPublished

\* every goroutine of the neighbor watches has ended
WatchesEnded ==
    \A i \in DOMAIN nw : nw[i].wst = "stopped" /\ nw[i].cbst = "done"

C15_InitOnceBeforeCallbacks ==
    /\ inits <= 1
    /\ ((\E i \in DOMAIN nw : nw[i].calls # << >> \/ nw[i].cbst = "stuck")
          \/ epochCalls # << >>
          \/ served)
       => inits = 1

\* C15 witness: after Init, the task has had a metadata callback, a
\* SetEpoch and a data request.
C15_Witness ==
    /\ inits = 1
    /\ \E i \in DOMAIN nw : nw[i].calls # << >>
    /\ epochCalls # << >>
    /\ served

\* the neighbors watched, with their roles and keys
Watched == [i \in DOMAIN nw |-> <<nw[i].who, nw[i].id, nw[i].path>>]

\* C19: once the setup sequence is over, no step changes the watched
\* neighbors, their keys, f.stops or f.taskID, nor asks the topology again:
\* a later epoch passed to SetEpoch leaves them as the initial epoch made them.
C19_WatchesFixedAfterSetup ==
    [][(epc \in {"first", "loop", "release", "released"}) =>
          (/\ Watched' = Watched
           /\ stops' = stops
           /\ selfID' = selfID
           /\ topoEpochs' = topoEpochs)]_vars

\* C19 witness: the node is in its epoch loop with an epoch whose topology
\* has another parent than the one it watches, which is still the parent
\* of the initial epoch.
C19_Witness ==
    /\ epc = "loop"
    /\ Len(epochCalls) >= 2
    /\ Len(stops) = MaxWatches
    /\ GetParents(fEpoch) # GetParents(epochCalls[1])
    /\ nw[1].who = roleParent
    /\ <<nw[1].id>> = GetParents(epochCalls[1])

\* C20: the first SetEpoch carries the epoch the parents and the children
\* were computed from, also when epochs are published during the setup of
\* the watches; those are passed to later SetEpoch calls, none is lost.
C20_FirstEpochIsTopologyEpoch ==
    /\ epochCalls # << >> =>
          /\ Len(topoEpochs) = 2
          /\ \A i \in DOMAIN topoEpochs : topoEpochs[i] = epochCalls[1]
    /\ eWatchIndex # 0 => IsPrefix(epochCalls, InitialThenPublished)
    /\ (epc = "loop" /\ ~epochStop /\ epochChan = << >>
          /\ WatchNext(EpochKey, eWatchIndex) = 0)
       => epochCalls = InitialThenPublished

\* C20 witness: an epoch was published after the initial read and before
\* the first baseline Get of watchAll; the first SetEpoch carried the epoch
\* of the topology and a later one the published value.
C20_Witness ==
    /\ Len(nw) >= 1
    /\ \E i \in KeyEvents(EpochKey) :
          /\ eGetIndex < i /\ i <= nw[1].getIndex
          /\ log[i].value # topoEpochs[1]
    /\ Len(epochCalls) >= 2
    /\ epochCalls[1] = topoEpochs[1]
    /\ epochCalls = InitialThenPublished

-----------------------------------------------------------------------------
(* Properties of the data-plane server (SpecServe) *)

\* C14: the response to a request is the chunks the task pushed into that
\* request's channel, in push order, nothing of another request among them;
\* the handler called is the one for the requester's role in the topology;
\* a request whose task pushes nothing more keeps no other from completing.
C14_ResponseIsPushedChunks ==
    \A r \in Requests :
        /\ reqs[r].body \o reqs[r].ch = reqs[r].pushed
        /\ reqs[r].st = "done" => reqs[r].body = reqs[r].pushed
        /\ reqs[r].st \in {"open", "closed", "done"} =>
              /\ <<reqs[r].from>> = GetParents(fEpoch) => reqs[r].cb = "ServeAsChild"
              /\ <<reqs[r].from>> = GetChildren(fEpoch) => reqs[r].cb = "ServeAsParent"
              /\ reqs[r].cb \in {"ServeAsChild", "ServeAsParent"}
        /\ reqs[r].st = "error" =>
              /\ reqs[r].pushed = << >>
              /\ <<reqs[r].from>> \notin {GetParents(fEpoch), GetChildren(fEpoch)}

\* C14 witness: two requests are open at once; one, from a parent, got
\* its two chunks back in push order and is complete, while the other, from
\* a child, has a chunk pushed and is not served further.
C14_Witness ==
    \E r, q \in Requests :
        /\ r # q
        /\ reqs[r].st = "done" /\ reqs[r].cb = "ServeAsChild"
        /\ reqs[r].req = "chunk1"
        /\ reqs[r].body = <<"a", "b">>
        /\ reqs[q].st = "open" /\ reqs[q].cb = "ServeAsParent"
        /\ reqs[q].pushed = <<"b">> /\ reqs[q].body = << >>

-----------------------------------------------------------------------------
(* Properties of heartbeat and failure detection (SpecLiveness) *)

\* C13: once the node has stopped refreshing its marker, the marker expires
\* and every peer reports the expiry within TTL + NetDelay of the stop;
\* while the node keeps heartbeating on its interval its marker does not
\* expire and no peer reports it.
C13_ExpiryReportedInBoundedTime ==
    /\ beating =>
          /\ markerExp # Never /\ expiredAt = Never
          /\ \A p \in Peers : reported[p] = Never
    /\ \A p \in Peers : reported[p] # Never =>
          /\ stoppedAt # Never /\ expiredAt # Never
          /\ expiredAt <= stoppedAt + TTL
          /\ expiredAt <= reported[p]
          /\ reported[p] <= stoppedAt + TTL + NetDelay
    /\ (stoppedAt # Never /\ clock > stoppedAt + TTL + NetDelay) =>
          \A p \in Peers : reported[p] # Never

\* C13 witness: the node heartbeated for a while and stopped; each peer
\* reported the expiry, one of them at the very end of the bound.
C13_Witness ==
    /\ stoppedAt >= 2 * HeartbeatInterval
    /\ \A p \in Peers : reported[p] # Never
    /\ \E p \in Peers : reported[p] = stoppedAt + TTL + NetDelay
    /\ clock > stoppedAt + TTL + NetDelay

=============================================================================
